---- MODULE Spec2Model ----
(***************************************************************************)
(* Model of the archive importer (src/scripts/importer.py) and of the      *)
(* Model table behind insert_model (src/app/database_manager.py).          *)
(*                                                                         *)
(* Text is modelled character by character: a Python str is a sequence of  *)
(* one-character strings, so that slugify, the pathlib stem/suffix split   *)
(* and the "_k" collision suffixes are computed as the code computes them  *)
(* ("cube" suffixed with 1 and a file already called "cube_1" collide).    *)
(*                                                                         *)
(* Failures of the environment are nondeterministic and counted in faults  *)
(* (at most MaxFaults per behaviour): target_dir.mkdir, shutil.move of a   *)
(* relocated file, the database connection of insert_model, the routing of *)
(* the archive to _processed, failed_dir.mkdir and the move to _failed.    *)
(* shutil.rmtree and the cleanup of the TemporaryDirectory are taken to    *)
(* succeed: the code only logs their failure.                              *)
(***************************************************************************)
EXTENDS Integers, Sequences, FiniteSets, TLC

(***************************************************************************)
(* Characters and str helpers                                              *)
(***************************************************************************)
LowerLetters == <<"a","b","c","d","e","f","g","h","i","j","k","l","m",
                  "n","o","p","q","r","s","t","u","v","w","x","y","z">>

UpperLetters == <<"A","B","C","D","E","F","G","H","I","J","K","L","M",
                  "N","O","P","Q","R","S","T","U","V","W","X","Y","Z">>

DigitChars == <<"0","1","2","3","4","5","6","7","8","9">>

Range(s) == { s[i] : i \in DOMAIN s }

IsDigit(c) == c \in Range(DigitChars)

IsAlnum(c) == c \in Range(LowerLetters) \cup Range(UpperLetters) \cup Range(DigitChars)

\* str.isspace for the characters str.strip() and str.splitlines() treat specially
IsSpace(c) == c \in {" ", "\t", "\n", "\r"}

IndexIn(seq, c) == CHOOSE i \in DOMAIN seq : seq[i] = c

\* str.lower() / str.upper(), one character
LowerChar(c) == IF c \in Range(UpperLetters) THEN LowerLetters[IndexIn(UpperLetters, c)] ELSE c

UpperChar(c) == IF c \in Range(LowerLetters) THEN UpperLetters[IndexIn(LowerLetters, c)] ELSE c

Lower(s) == [i \in DOMAIN s |-> LowerChar(s[i])]

Upper(s) == [i \in DOMAIN s |-> UpperChar(s[i])]

\* s[a..b] with Python-like clamping to an empty result
Slice(s, a, b) == IF a > b THEN <<>> ELSE SubSeq(s, a, b)

RECURSIVE LStrip(_)
LStrip(s) == IF s # <<>> /\ IsSpace(Head(s)) THEN LStrip(Tail(s)) ELSE s

RECURSIVE RStrip(_)
RStrip(s) == IF s # <<>> /\ IsSpace(s[Len(s)]) THEN RStrip(Slice(s, 1, Len(s) - 1)) ELSE s

\* str.strip()
Strip(s) == RStrip(LStrip(s))

\* index of the last c in s, 0 if there is none (str.rfind, 1-based)
RFind(s, c) == LET at == { i \in DOMAIN s : s[i] = c }
               IN IF at = {} THEN 0 ELSE CHOOSE i \in at : \A j \in at : j <= i

\* index of the first c in s, 0 if there is none (str.find, 1-based)
Find(s, c) == LET at == { i \in DOMAIN s : s[i] = c }
              IN IF at = {} THEN 0 ELSE CHOOSE i \in at : \A j \in at : j >= i

\* str(i) for a natural number
RECURSIVE IntToStr(_)
IntToStr(n) == IF n < 10 THEN <<DigitChars[n + 1]>>
               ELSE IntToStr(n \div 10) \o <<DigitChars[(n % 10) + 1]>>

\* the characters of s that are in keep, in order
SelectChars(s, keep) == SelectSeq(s, LAMBDA c : c \in keep)

(***************************************************************************)
(* pathlib: Path(p).suffix and Path(p).stem of a file name                 *)
(***************************************************************************)
\* PurePath.suffix: from the last dot, unless the dot leads or ends the name
Suffix(name) == LET i == RFind(name, ".")
                IN IF 1 < i /\ i < Len(name) THEN Slice(name, i, Len(name)) ELSE <<>>

\* PurePath.stem: the name without its suffix
Stem(name) == LET i == RFind(name, ".")
              IN IF 1 < i /\ i < Len(name) THEN Slice(name, 1, i - 1) ELSE name

(***************************************************************************)
(* slugify (importer.py:90-105)                                            *)
(***************************************************************************)
MaxSlugLen == 150

FallbackSlug == <<"m","o","d","e","l">>

NoneValue == <<"<None>">>

SlugChars == Range(LowerLetters) \cup Range(UpperLetters) \cup Range(DigitChars) \cup {"_", "-"}

\* re.sub(r"\.[a-zA-Z0-9]{1,5}$", "", s): drop a final ".ext" of 1 to 5 alphanumerics
StripExtension(s) ==
    LET i == RFind(s, ".")
        n == Len(s) - i
    IN IF i >= 1 /\ n >= 1 /\ n <= 5 /\ \A j \in (i + 1)..Len(s) : IsAlnum(s[j])
       THEN Slice(s, 1, i - 1)
       ELSE s

\* s.replace(" ", "_")
SpacesToUnderscores(s) == [i \in DOMAIN s |-> IF s[i] = " " THEN "_" ELSE s[i]]

\* mutant: nothing replaces a name of which no character is kept
slugify_NoFallback(name) ==
    IF name = <<>> \/ name = NoneValue THEN NoneValue
    ELSE LET s1 == StripExtension(Strip(name))
             s2 == SelectChars(SpacesToUnderscores(s1), SlugChars)
         IN Slice(s2, 1, IF Len(s2) < MaxSlugLen THEN Len(s2) ELSE MaxSlugLen)

slugify(name) ==
    IF name = <<>> \/ name = NoneValue THEN NoneValue
    ELSE LET s1 == StripExtension(Strip(name))
             s2 == SelectChars(SpacesToUnderscores(s1), SlugChars)
             s3 == IF s2 = <<>> THEN FallbackSlug ELSE s2
         IN Slice(s3, 1, IF Len(s3) < MaxSlugLen THEN Len(s3) ELSE MaxSlugLen)

(***************************************************************************)
(* parse_metadata_from_text (importer.py:49-65)                            *)
(* The parsed dict is a function from keys to values; dict.get of a        *)
(* missing key is None.                                                    *)
(***************************************************************************)
IsLineBreak(c) == c \in {"\n", "\r"}

\* text.splitlines(): the pieces between line breaks
RECURSIVE SplitLines(_)
SplitLines(text) ==
    IF text = <<>> THEN <<>>
    ELSE LET breaks == { k \in DOMAIN text : IsLineBreak(text[k]) }
         IN IF breaks # {}
            THEN LET i == CHOOSE k \in breaks : \A j \in breaks : k <= j
                 IN <<Slice(text, 1, i - 1)>> \o SplitLines(Slice(text, i + 1, Len(text)))
            ELSE <<text>>

DictSet(data, key, val) == [k \in (DOMAIN data) \cup {key} |-> IF k = key THEN val ELSE data[k]]

DictGet(data, key) == IF key \in DOMAIN data THEN data[key] ELSE NoneValue

\* mutant: the line is split on its last colon
ParseLine_SplitLast(data, raw_line) ==
    LET line == Strip(raw_line)
        c    == RFind(line, ":")
    IN IF line = <<>> \/ Head(line) # "#" THEN data
       ELSE IF c = 0 THEN data
       ELSE DictSet(data, Strip(Slice(line, 2, c - 1)), Strip(Slice(line, c + 1, Len(line))))

\* one iteration of the loop over text.splitlines()
ParseLine(data, raw_line) ==
    LET line == Strip(raw_line)
        c    == Find(line, ":")
    IN IF line = <<>> \/ Head(line) # "#" THEN data
       ELSE IF c = 0 THEN data
       ELSE DictSet(data, Strip(Slice(line, 2, c - 1)), Strip(Slice(line, c + 1, Len(line))))

RECURSIVE ParseLines(_, _)
ParseLines(data, lines) ==
    IF lines = <<>> THEN data ELSE ParseLines(ParseLine(data, Head(lines)), Tail(lines))

parse_metadata_from_text(text) == ParseLines(<<>>, SplitLines(text))

\* Python truthiness of an optional str: None and "" are false
Truthy(s) == s # <<>> /\ s # NoneValue

(***************************************************************************)
(* Extracted files.  A file is [folder, name, text, readable]: the folder  *)
(* it has inside the archive, its file name, its content (used for .txt    *)
(* files) and whether open(..., encoding="utf-8").read() succeeds.  A path *)
(* of the extracted list is denoted by its index in the list (the paths of *)
(* one listing are pairwise distinct); 0 stands for None.                  *)
(***************************************************************************)
PREVIEW_JPG == { <<".","j","p","g">>, <<".","j","p","e","g">> }

PREVIEW_PNG == <<".","p","n","g">>

GEOM_EXTS == { <<".","o","b","j">>, <<".","f","b","x">>, <<".","g","l","t","f">>, <<".","3","d","s">> }

TXT_EXT == <<".","t","x","t">>

\* the smallest index of files satisfying the test, 0 if none
FirstIndex(S) == IF S = {} THEN 0 ELSE CHOOSE i \in S : \A j \in S : i <= j

\* find_preview_file (importer.py:108-120)
find_preview_file(files) ==
    LET jpg == { i \in DOMAIN files : Lower(Suffix(files[i].name)) \in PREVIEW_JPG }
        png == { i \in DOMAIN files : Lower(Suffix(files[i].name)) = PREVIEW_PNG }
    IN IF jpg # {} THEN FirstIndex(jpg) ELSE FirstIndex(png)

\* find_geometry_file (importer.py:123-128)
find_geometry_file(files) ==
    FirstIndex({ i \in DOMAIN files : Lower(Suffix(files[i].name)) \in GEOM_EXTS })

\* the first extracted file whose name equals the hint (importer.py:198-201, 214-217)
FindByName(files, hint) == FirstIndex({ i \in DOMAIN files : files[i].name = hint })

(***************************************************************************)
(* ensure_unique_dir (importer.py:131-140).  existing is the set of names  *)
(* present in base_out_dir; the result is the name chosen under it.        *)
(***************************************************************************)
WithSuffix(name, i) == name \o <<"_">> \o IntToStr(i)

RECURSIVE UniqueDirLoop(_, _, _, _)
UniqueDirLoop(existing, desired_name, candidate, i) ==
    IF candidate \in existing
    THEN UniqueDirLoop(existing, desired_name, WithSuffix(desired_name, i), i + 1)
    ELSE candidate

\* mutant: the counter starts at 2, so name_1 is never tried
ensure_unique_dir_From2(existing, desired_name) ==
    UniqueDirLoop(existing, desired_name, desired_name, 2)

ensure_unique_dir(existing, desired_name) == UniqueDirLoop(existing, desired_name, desired_name, 1)

(***************************************************************************)
(* polygon_count (importer.py:279):                                        *)
(*   int(num_polys) if num_polys and num_polys.isdigit()                   *)
(*   else (int(float(num_polys)) if num_polys else None)                   *)
(* An optional int is <<>> (None) or <<n>>.  float() is modelled for       *)
(* decimal literals: an optional sign, digits, an optional fraction; the   *)
(* other texts of the modelled alphabet make float() raise ValueError.     *)
(***************************************************************************)
RECURSIVE StrToNat(_)
StrToNat(ds) == IF ds = <<>> THEN 0
                ELSE 10 * StrToNat(Slice(ds, 1, Len(ds) - 1)) + (IndexIn(DigitChars, ds[Len(ds)]) - 1)

\* str.isdigit()
IsDigitStr(s) == s # <<>> /\ \A i \in DOMAIN s : IsDigit(s[i])

AllDigits(s) == \A i \in DOMAIN s : IsDigit(s[i])

\* float(s) of a decimal literal, then int(): [ok, val], val truncated towards zero
IntOfFloat(s) ==
    LET neg   == s # <<>> /\ Head(s) = "-"
        body  == IF s # <<>> /\ Head(s) \in {"-", "+"} THEN Tail(s) ELSE s
        d     == Find(body, ".")
        whole == IF d = 0 THEN body ELSE Slice(body, 1, d - 1)
        frac  == IF d = 0 THEN <<>> ELSE Slice(body, d + 1, Len(body))
        ok    == AllDigits(whole) /\ AllDigits(frac) /\ (whole # <<>> \/ frac # <<>>)
    IN IF ok THEN [ok |-> TRUE, val |-> IF neg THEN 0 - StrToNat(whole) ELSE StrToNat(whole)]
       ELSE [ok |-> FALSE, val |-> 0]

\* the polygon_count expression: [ok |-> FALSE] when it raises
PolygonCount(num_polys) ==
    IF Truthy(num_polys) /\ IsDigitStr(num_polys)
    THEN [ok |-> TRUE, val |-> <<StrToNat(num_polys)>>]
    ELSE IF Truthy(num_polys)
         THEN LET f == IntOfFloat(num_polys)
              IN [ok |-> f.ok, val |-> IF f.ok THEN <<f.val>> ELSE <<>>]
         ELSE [ok |-> TRUE, val |-> <<>>]

(***************************************************************************)
(* insert_model (database_manager.py:81-128) on the Model table            *)
(* (database_manager.py:36-49): model_id SERIAL PRIMARY KEY, model_name    *)
(* NOT NULL UNIQUE, preview_file NOT NULL.  The result is what the call    *)
(* leaves behind: ok, the rows, the serial's next value and the id.        *)
(***************************************************************************)
ModelNames(rows) == { r.model_name : r \in rows }

\* mutant: only model_name is required
MissingRequired_NameOnly(model_data) == ~Truthy(model_data.model_name)

\* the required-field loop: the first missing or empty field raises ValueError
MissingRequired(model_data) == ~Truthy(model_data.model_name) \/ ~Truthy(model_data.preview_file)

\* mutant: a Model table whose model_name is not declared UNIQUE
InsertRow_NoUnique(model_data, rows, serial) ==
    [ok |-> TRUE,
     rows |-> rows \cup {[model_id |-> serial,
                          model_name |-> model_data.model_name,
                          format |-> model_data.format,
                          polygon_count |-> model_data.polygon_count,
                          preview_file |-> model_data.preview_file]},
     serial |-> serial + 1, id |-> serial]

\* INSERT INTO Model ... RETURNING model_id, in its own transaction
InsertRow(model_data, rows, serial) ==
    IF model_data.model_name \in ModelNames(rows)
    THEN \* unique violation: the transaction rolls back, the serial value stays used
         [ok |-> FALSE, rows |-> rows, serial |-> serial + 1, id |-> 0]
    ELSE [ok |-> TRUE,
          rows |-> rows \cup {[model_id |-> serial,
                               model_name |-> model_data.model_name,
                               format |-> model_data.format,
                               polygon_count |-> model_data.polygon_count,
                               preview_file |-> model_data.preview_file]},
          serial |-> serial + 1, id |-> serial]

insert_model(model_data, rows, serial) ==
    IF MissingRequired(model_data)
    THEN [ok |-> FALSE, rows |-> rows, serial |-> serial, id |-> 0]
    ELSE InsertRow(model_data, rows, serial)

(***************************************************************************)
(* The archives the importer is run on.  Each is [bad, files]: whether     *)
(* zipfile raises BadZipFile, and the extracted files in the order rglob   *)
(* lists them.  Archive a of the Catalogue is the file z<a>.zip.           *)
(***************************************************************************)
K_GeometryFile == <<"G","e","o","m","e","t","r","y","F","i","l","e">>

K_PreviewFile == <<"P","r","e","v","i","e","w","F","i","l","e">>

K_DownloadModelFormat == <<"D","o","w","n","l","o","a","d","M","o","d","e","l","F","o","r","m","a","t">>

K_NumberOfPolygons == <<"N","u","m","b","e","r","O","f","P","o","l","y","g","o","n","s">>

K_Description == <<"D","e","s","c","r","i","p","t","i","o","n">>

\* "#<key>: <val>\n"
MetaLine(key, val) == <<"#">> \o key \o <<":", " ">> \o val \o <<"\n">>

cube_obj == <<"c","u","b","e",".","o","b","j">>

cube_jpg == <<"c","u","b","e",".","j","p","g">>

ball_obj == <<"b","a","l","l",".","o","b","j">>

info_txt == <<"i","n","f","o",".","t","x","t">>

RootFolder == <<>>

File(folder, name) == [folder |-> folder, name |-> name, text |-> <<>>, readable |-> TRUE]

TextFile(name, text) == [folder |-> RootFolder, name |-> name, text |-> text, readable |-> TRUE]

\* "#GeometryFile: cube.obj\n#PreviewFile: cube.jpg\n#NumberOfPolygons: 12\n"
CubeInfo == MetaLine(K_GeometryFile, cube_obj) \o MetaLine(K_PreviewFile, cube_jpg)
            \o MetaLine(K_NumberOfPolygons, <<"1","2">>)

\* "#GeometryFile: cube.obj\n#PreviewFile: cube.jpg\n#NumberOfPolygons: -5\n"
NegCountInfo == MetaLine(K_GeometryFile, cube_obj) \o MetaLine(K_PreviewFile, cube_jpg)
                \o MetaLine(K_NumberOfPolygons, <<"-","5">>)

\* "#GeometryFile: cube.obj\n#NumberOfPolygons: abc\n"
BadCountInfo == MetaLine(K_GeometryFile, cube_obj) \o MetaLine(K_NumberOfPolygons, <<"a","b","c">>)

\* "# a note\nfree text\n": no key/value line at all
FreeText == <<"#"," ","a"," ","n","o","t","e","\n","f","r","e","e"," ","t","e","x","t","\n">>

Catalogue == <<
    \* 1: geometry, preview and metadata naming both
    [bad |-> FALSE,
     files |-> <<TextFile(info_txt, CubeInfo), File(RootFolder, cube_obj), File(RootFolder, cube_jpg)>>],
    \* 2: no hints in the metadata: the name comes from the zip, the preview is a png
    [bad |-> FALSE,
     files |-> <<TextFile(<<"n","o","t","e","s",".","t","x","t">>, FreeText),
                 File(<<"m","e","s","h">>, <<"M","y"," ","B","a","l","l",".","F","B","X">>),
                 File(RootFolder, <<"s","h","o","t",".","P","N","G">>)>>],
    \* 3: not a zip file
    [bad |-> TRUE, files |-> <<>>],
    \* 4: a zip with no files in it
    [bad |-> FALSE, files |-> <<>>],
    \* 5: no .txt file
    [bad |-> FALSE, files |-> <<File(RootFolder, cube_obj), File(RootFolder, cube_jpg)>>],
    \* 6: no geometry file
    [bad |-> FALSE, files |-> <<TextFile(info_txt, CubeInfo), File(RootFolder, cube_jpg)>>],
    \* 7: no preview image
    [bad |-> FALSE, files |-> <<TextFile(info_txt, CubeInfo), File(RootFolder, cube_obj)>>],
    \* 8: NumberOfPolygons is not a number
    [bad |-> FALSE,
     files |-> <<TextFile(info_txt, BadCountInfo), File(RootFolder, cube_obj), File(RootFolder, cube_jpg)>>],
    \* 9: two previews of the same name in two folders, and a second .txt named after
    \* the zip, giving a negative NumberOfPolygons
    [bad |-> FALSE,
     files |-> <<TextFile(info_txt, MetaLine(K_GeometryFile, ball_obj)),
                 File(<<"a">>, cube_jpg),
                 TextFile(<<"Z","9",".","T","X","T">>, NegCountInfo),
                 File(RootFolder, cube_obj),
                 File(RootFolder, ball_obj),
                 File(<<"b">>, cube_jpg)>>],
    \* 10: the metadata file is not valid UTF-8
    [bad |-> FALSE,
     files |-> <<[folder |-> RootFolder, name |-> info_txt, text |-> <<>>, readable |-> FALSE],
                 File(RootFolder, cube_obj), File(RootFolder, cube_jpg)>>]
>>

\* Path(zp).stem of archive a: "z<a>"
ZipStem(a) == <<"z">> \o IntToStr(a)

(***************************************************************************)
(* Bounds of the model                                                     *)
(***************************************************************************)
\* archives of the Catalogue present in the input directory
NumArchives == 2

\* invocations of process_all_zips
MaxRuns == 2

\* I/O operations that fail (mkdir, move, database connection) in one behaviour
MaxFaults == 1

\* calls of insert_model made by other callers than the importer
MaxDirectCalls == 1

\* length of the names slugify is called with on its own
MaxNameLen == 3

\* length of the texts parse_metadata_from_text is called with on its own
MaxTextLen == 6

(***************************************************************************)
(* State                                                                   *)
(***************************************************************************)
VARIABLES
    where,       \* where[a]: directory zip a is in: "input", "_processed", "_failed"
    dirs,        \* output root: name of each model directory |-> the file names in it
    tmpdirs,     \* tmp_base: id of each extraction workspace |-> indices of the files in it
    records,     \* rows of the Model table
    serial,      \* next value of the model_id SERIAL
    pc,          \* position of process_all_zips / process_one_zip
    queue,       \* zip_paths of the current run: <<[zip, dir]>>
    pos,         \* index in queue of the archive of the current iteration
    frame,       \* locals of process_one_zip and its return value; moved[i] is the
                 \* name shutil.move gave the i-th extracted file (importer.py:259)
    exc,         \* the exception caught by "except Exception as exc" (importer.py:340)
    log,         \* the log lines of the current iteration (an error line is followed by its cause)
    ingested,    \* what the importer inserted: [zip, dir, id, name, run], dir the zip's directory
    start,       \* records, dirs and where as they were when the iteration began
    runs,        \* invocations of process_all_zips so far
    faults,      \* failed I/O operations so far
    directCalls, \* direct insert_model calls so far
    call,        \* the insert_model call of the current iteration, or the last direct one:
                 \* its argument, the rows and serial it found, and its outcome
    arg,         \* the argument of a function called on its own (slugify, parse_metadata_from_text)
    ret,         \* what that call returned
    procs        \* the invocations of the importer running side by side on one output
                 \* root and one store: procs[w] is the position and the locals of w

vars == <<where, dirs, tmpdirs, records, serial, pc, queue, pos, frame, exc, log,
          ingested, start, runs, faults, directCalls, call, arg, ret, procs>>

NoModelData == [model_name |-> NoneValue, format |-> NoneValue, polygon_count |-> <<>>,
                preview_file |-> NoneValue]

NoFrame == [tmpdir |-> 0, geometry_path |-> 0, preview_path |-> 0,
            download_format |-> NoneValue, num_polys |-> NoneValue,
            model_name_safe |-> NoneValue, target_dir |-> NoneValue, k |-> 0, moved_preview_name |-> NoneValue,
            moved |-> <<>>, model_data |-> NoModelData]

NoCall == [made |-> FALSE, model_data |-> NoModelData, connected |-> FALSE,
           before |-> {}, serial |-> 0, ok |-> FALSE, id |-> 0]

\* no function has been called on its own
NoResult == [done |-> FALSE]

DictDel(data, key) == [k \in (DOMAIN data) \ {key} |-> data[k]]

\* the archives under input_dir
Archives == DOMAIN where

\* extracted_files of archive a
Files(a) == Catalogue[a].files

Init ==
    /\ \E S \in SUBSET (DOMAIN Catalogue) :
          /\ Cardinality(S) = NumArchives
          /\ where = [a \in S |-> "input"]
    /\ dirs = <<>>
    /\ tmpdirs = <<>>
    /\ records = {}
    /\ serial = 1
    /\ pc = "idle"
    /\ queue = <<>>
    /\ pos = 1
    /\ frame = NoFrame
    /\ exc = ""
    /\ log = <<>>
    /\ ingested = {}
    /\ start = [records |-> {}, dirs |-> <<>>, where |-> where]
    /\ runs = 0
    /\ faults = 0
    /\ directCalls = 0
    /\ call = NoCall
    /\ arg = <<>>
    /\ ret = NoResult
    /\ procs = <<>>

(***************************************************************************)
(* process_all_zips, discovery (importer.py:300-314).  os.walk lists the   *)
(* zips of input_dir itself and then those of every subdirectory.  The     *)
(* listing order of a directory is the file system's; the model fixes it   *)
(* to the order of the names (z1.zip before z2.zip, _failed before         *)
(* _processed).                                                            *)
(***************************************************************************)
RECURSIVE Sorted(_)
Sorted(S) == IF S = {} THEN <<>>
             ELSE LET m == CHOOSE x \in S : \A y \in S : x <= y
                  IN <<m>> \o Sorted(S \ {m})

\* the zips found in directory d of the walk, as paths [zip, dir]
PathsIn(w, d) == LET order == Sorted({ a \in DOMAIN w : w[a] = d })
                 IN [i \in DOMAIN order |-> [zip |-> order[i], dir |-> d]]

\* zip_paths after the os.walk loop
Discover(w) == PathsIn(w, "input") \o PathsIn(w, "_failed") \o PathsIn(w, "_processed")

StartRun ==
    /\ pc \in {"idle", "crashed"}
    /\ runs < MaxRuns
    /\ runs' = runs + 1
    /\ queue' = Discover(where)
    /\ pos' = 1
    /\ pc' = "loop"
    /\ frame' = NoFrame
    /\ exc' = ""
    /\ log' = <<"Found zip files to process">>
    /\ call' = NoCall
    /\ UNCHANGED <<where, dirs, tmpdirs, records, serial, ingested, start, faults, directCalls,
                   arg, ret, procs>>

\* mutant: a summary of the run is logged when the loop is exhausted
EndRun_WithSummary ==
    /\ pc = "loop"
    /\ pos > Len(queue)
    /\ pc' = "idle"
    /\ log' = Append(log, "Summary of the run")
    /\ UNCHANGED <<where, dirs, tmpdirs, records, serial, queue, pos, frame, exc,
                   ingested, start, runs, faults, directCalls, call, arg, ret, procs>>

\* the for loop is exhausted: process_all_zips returns
EndRun ==
    /\ pc = "loop"
    /\ pos > Len(queue)
    /\ pc' = "idle"
    /\ UNCHANGED <<where, dirs, tmpdirs, records, serial, queue, pos, frame, exc, log,
                   ingested, start, runs, faults, directCalls, call, arg, ret, procs>>

(***************************************************************************)
(* process_one_zip (importer.py:143-293)                                   *)
(***************************************************************************)
\* tempfile.TemporaryDirectory(dir=tmp_base): a name not in use under tmp_base
NewTmpdir == CHOOSE i \in 1..(Cardinality(DOMAIN tmpdirs) + 1) : i \notin DOMAIN tmpdirs

\* mutant: a workspace made with mkdtemp and never removed
CleanupTmpdir_Leak(id) == tmpdirs

\* leaving the with block: the workspace and all that is left in it is deleted
CleanupTmpdir(id) == DictDel(tmpdirs, id)

\* an exception leaves process_one_zip: the with block cleans up, and the
\* handler of process_all_zips (importer.py:340) catches it
RaiseFromZip(msg) ==
    /\ tmpdirs' = CleanupTmpdir(frame.tmpdir)
    /\ exc' = msg
    /\ frame' = NoFrame
    /\ pc' = "except"

\* importer.py:148-161: create the workspace, extract, list the files
Extract ==
    /\ pc = "loop"
    /\ pos <= Len(queue)
    /\ LET arch == Catalogue[queue[pos].zip]
       IN IF arch.bad
          THEN /\ exc' = "Bad zip file"
               /\ pc' = "except"
               /\ UNCHANGED <<tmpdirs, frame>>
          ELSE IF arch.files = <<>>
          THEN /\ exc' = "No files found in zip"
               /\ pc' = "except"
               /\ UNCHANGED <<tmpdirs, frame>>
          ELSE /\ tmpdirs' = DictSet(tmpdirs, NewTmpdir, DOMAIN arch.files)
               /\ frame' = [NoFrame EXCEPT !.tmpdir = NewTmpdir]
               /\ exc' = ""
               /\ pc' = "resolve"
    /\ log' = <<"Processing">>
    /\ call' = NoCall
    /\ start' = [records |-> records, dirs |-> dirs, where |-> where]
    /\ UNCHANGED <<where, dirs, records, serial, queue, pos, ingested, runs, faults, directCalls,
                   arg, ret, procs>>

\* importer.py:163-238 as a function of the extracted files, the zip's stem and
\* the names present under final_base_dir: err is "" or the message raised
Resolution(files, zip_stem, existing) ==
    LET txt_files == { i \in DOMAIN files : Lower(Suffix(files[i].name)) = TXT_EXT }
        same_base == { i \in txt_files : Lower(Stem(files[i].name)) = Lower(zip_stem) }
        metadata_file == IF same_base # {} THEN FirstIndex(same_base) ELSE FirstIndex(txt_files)
        readable == metadata_file # 0 /\ files[metadata_file].readable
        parsed == IF readable THEN parse_metadata_from_text(files[metadata_file].text) ELSE <<>>
        geom_file_name == DictGet(parsed, K_GeometryFile)
        preview_hint == DictGet(parsed, K_PreviewFile)
        description == DictGet(parsed, K_Description)
        geom_by_hint == IF Truthy(geom_file_name) THEN FindByName(files, geom_file_name) ELSE 0
        geometry_path == IF geom_by_hint # 0 THEN geom_by_hint ELSE find_geometry_file(files)
        prev_by_hint == IF Truthy(preview_hint) THEN FindByName(files, preview_hint) ELSE 0
        preview_path == IF prev_by_hint # 0 THEN prev_by_hint ELSE find_preview_file(files)
        base0 == IF Truthy(geom_file_name) THEN Stem(geom_file_name) ELSE zip_stem
        model_base == IF base0 = <<>> \/ Strip(base0) = <<>>
                      THEN (IF Truthy(description) THEN description ELSE zip_stem)
                      ELSE base0
        model_name_safe == slugify(model_base)
    IN [err |-> IF txt_files = {} THEN "No metadata .txt found"
                ELSE IF ~readable THEN "Failed to open file"
                ELSE IF geometry_path = 0 THEN "No geometry file found"
                ELSE IF preview_path = 0 THEN "No preview image found"
                ELSE "",
        geometry_path |-> geometry_path,
        preview_path |-> preview_path,
        download_format |-> DictGet(parsed, K_DownloadModelFormat),
        num_polys |-> DictGet(parsed, K_NumberOfPolygons),
        model_name_safe |-> model_name_safe,
        target_dir |-> ensure_unique_dir(existing, model_name_safe)]

Resolve ==
    /\ pc = "resolve"
    /\ \E r \in {Resolution(Files(queue[pos].zip), ZipStem(queue[pos].zip), DOMAIN dirs)} :
          IF r.err # ""
          THEN /\ RaiseFromZip(r.err)
               /\ UNCHANGED log
          ELSE /\ frame' = [frame EXCEPT !.geometry_path = r.geometry_path,
                                         !.preview_path = r.preview_path,
                                         !.download_format = r.download_format,
                                         !.num_polys = r.num_polys,
                                         !.model_name_safe = r.model_name_safe,
                                         !.target_dir = r.target_dir]
               /\ log' = Append(log, "Planned final directory")
               /\ pc' = "mkdir"
               /\ UNCHANGED <<tmpdirs, exc>>
    /\ UNCHANGED <<where, dirs, records, serial, queue, pos, ingested, start, runs,
                   faults, directCalls, call, arg, ret, procs>>

\* importer.py:242: target_dir.mkdir(parents=True, exist_ok=False)
Mkdir ==
    /\ pc = "mkdir"
    /\ \/ /\ frame.target_dir \notin DOMAIN dirs
          /\ dirs' = DictSet(dirs, frame.target_dir, {})
          /\ frame' = [frame EXCEPT !.k = 1]
          /\ pc' = "move"
          /\ UNCHANGED <<tmpdirs, exc, faults>>
       \/ /\ frame.target_dir \in DOMAIN dirs
          /\ RaiseFromZip("FileExistsError")
          /\ UNCHANGED <<dirs, faults>>
       \/ /\ faults < MaxFaults
          /\ faults' = faults + 1
          /\ RaiseFromZip("mkdir failed")
          /\ UNCHANGED dirs
    /\ UNCHANGED <<where, records, serial, queue, pos, log, ingested, start, runs, directCalls, call, arg, ret, procs>>

\* dest_name.rsplit('.', 1)[0]
RSplitHead(s) == IF RFind(s, ".") = 0 THEN s ELSE Slice(s, 1, RFind(s, ".") - 1)

\* importer.py:254-257: the first of dest_name, base_1.ext, base_2.ext, ... not in the directory
RECURSIVE FreeDestName(_, _, _, _, _)
FreeDestName(present, dest_name, suffix, candidate, k) ==
    IF candidate \in present
    THEN FreeDestName(present, dest_name, suffix,
                      RSplitHead(dest_name) \o <<"_">> \o IntToStr(k) \o suffix, k + 1)
    ELSE candidate

\* mutant: the destination is not tested for existence, a file of the same name is overwritten
DestName_Overwrite(present, src_name) == slugify(Stem(src_name)) \o Lower(Suffix(src_name))

\* importer.py:250-257: the name src gets in a directory holding the names present
DestName(present, src_name) ==
    LET dest_name == slugify(Stem(src_name)) \o Lower(Suffix(src_name))
    IN FreeDestName(present, dest_name, Lower(Suffix(src_name)), dest_name, 1)

\* mutant: the original file name is tracked instead of the name the file was moved to
TrackPreview_OriginalName(files, i, preview_path, dest, moved_preview_name) ==
    IF i = preview_path \/ files[i].name = files[preview_path].name
    THEN files[i].name
    ELSE moved_preview_name

\* importer.py:262-263: the preview name tracked after moving file i to dest
TrackPreview(files, i, preview_path, dest, moved_preview_name) ==
    IF i = preview_path \/ files[i].name = files[preview_path].name
    THEN dest
    ELSE moved_preview_name

\* mutant: the handler re-raises without removing the directory
CleanupAndRaise_NoRmtree(msg) ==
    /\ dirs' = dirs
    /\ RaiseFromZip(msg)

\* importer.py:286-293: the handler of the try around relocation and record building
CleanupAndRaise(msg) ==
    /\ dirs' = IF frame.target_dir \in DOMAIN dirs THEN DictDel(dirs, frame.target_dir) ELSE dirs
    /\ RaiseFromZip(msg)

\* importer.py:248-263: one iteration of the loop over extracted_files
MoveOne ==
    /\ pc = "move"
    /\ frame.k <= Len(Files(queue[pos].zip))
    /\ LET files == Files(queue[pos].zip)
           i == frame.k
           dest == DestName(dirs[frame.target_dir], files[i].name)
       IN \/ /\ dirs' = [dirs EXCEPT ![frame.target_dir] = @ \cup {dest}]
             /\ tmpdirs' = [tmpdirs EXCEPT ![frame.tmpdir] = @ \ {i}]
             /\ frame' = [frame EXCEPT
                            !.k = i + 1,
                            !.moved = Append(@, dest),
                            !.moved_preview_name =
                                TrackPreview(files, i, frame.preview_path, dest, @)]
             /\ pc' = IF i = Len(files) THEN "build" ELSE "move"
             /\ UNCHANGED <<exc, faults>>
          \/ /\ faults < MaxFaults
             /\ faults' = faults + 1
             /\ CleanupAndRaise("move failed")
    /\ UNCHANGED <<where, records, serial, queue, pos, log, ingested, start, runs, directCalls, call, arg, ret, procs>>

\* str.lstrip(".")
RECURSIVE LStripDots(_)
LStripDots(s) == IF s # <<>> /\ Head(s) = "." THEN LStripDots(Tail(s)) ELSE s

\* (download_format or Path(geometry_path).suffix.lstrip(".")).upper()
FormatOf(download_format, geometry_name) ==
    Upper(IF Truthy(download_format) THEN download_format ELSE LStripDots(Suffix(geometry_name)))

\* importer.py:265-284: the sanity check, model_data, return
Build ==
    /\ pc = "build"
    /\ LET files == Files(queue[pos].zip)
           polys == PolygonCount(frame.num_polys)
       IN IF ~Truthy(frame.moved_preview_name)
          THEN CleanupAndRaise("Failed to detect preview file after moving files.")
          ELSE IF ~polys.ok
          THEN CleanupAndRaise("ValueError")
          ELSE /\ frame' = [frame EXCEPT
                              !.model_data =
                                  [model_name |-> frame.target_dir,
                                   format |-> FormatOf(frame.download_format,
                                                       files[frame.geometry_path].name),
                                   polygon_count |-> polys.val,
                                   preview_file |-> frame.moved_preview_name]]
               /\ tmpdirs' = CleanupTmpdir(frame.tmpdir)
               /\ pc' = "insert"
               /\ UNCHANGED <<dirs, exc>>
    /\ UNCHANGED <<where, records, serial, queue, pos, log, ingested, start, runs,
                   faults, directCalls, call, arg, ret, procs>>

(***************************************************************************)
(* process_all_zips, the body of the batch loop (importer.py:316-350)      *)
(***************************************************************************)
\* the loop goes on to the next zip
NextZip ==
    /\ pos' = pos + 1
    /\ pc' = "loop"
    /\ frame' = NoFrame
    /\ exc' = ""

\* mutant: the handler logs the failure and forgets to remove the directory
InsertFailed_NoRmtree ==
    /\ dirs' = dirs
    /\ log' = Append(log, "Database insert failed")
    /\ NextZip

\* mutant: the handler lacks its continue and falls through to the _processed move
InsertFailed_NoContinue ==
    /\ dirs' = IF frame.target_dir \in DOMAIN dirs THEN DictDel(dirs, frame.target_dir) ELSE dirs
    /\ log' = Append(log, "Database insert failed")
    /\ pc' = "processed"
    /\ UNCHANGED <<pos, frame, exc>>

\* importer.py:323-332: the handler of a failed insert_model, ending in continue
InsertFailed ==
    /\ dirs' = IF frame.target_dir \in DOMAIN dirs THEN DictDel(dirs, frame.target_dir) ELSE dirs
    /\ log' = log \o (IF frame.target_dir \in DOMAIN dirs
                      THEN <<"Database insert failed", "Removed partial folder">>
                      ELSE <<"Database insert failed">>)
    /\ NextZip

\* importer.py:320-332: insert_model(model_data) and what follows it
Insert ==
    /\ pc = "insert"
    /\ \/ LET r == insert_model(frame.model_data, records, serial)
          IN /\ records' = r.rows
             /\ serial' = r.serial
             /\ call' = [made |-> TRUE, model_data |-> frame.model_data, connected |-> TRUE,
                         before |-> records, serial |-> serial, ok |-> r.ok, id |-> r.id]
             /\ IF r.ok
                THEN /\ ingested' = ingested \cup {[zip |-> queue[pos].zip, dir |-> queue[pos].dir,
                                                    id |-> r.id,
                                                    name |-> frame.model_data.model_name,
                                                    run |-> runs]}
                     /\ log' = Append(log, "Inserted model id")
                     /\ pc' = "processed"
                     /\ UNCHANGED <<dirs, pos, frame, exc>>
                ELSE /\ InsertFailed
                     /\ UNCHANGED ingested
             /\ UNCHANGED faults
       \/ \* psycopg2.connect raises: the database cannot be reached
          /\ faults < MaxFaults
          /\ faults' = faults + 1
          /\ InsertFailed
          /\ call' = [made |-> TRUE, model_data |-> frame.model_data, connected |-> FALSE,
                      before |-> records, serial |-> serial, ok |-> FALSE, id |-> 0]
          /\ UNCHANGED <<records, serial, ingested>>
    /\ UNCHANGED <<where, tmpdirs, queue, start, runs, directCalls, arg, ret, procs>>

\* importer.py:334-339: processed_dir.mkdir and shutil.move; either may raise,
\* and the handler at importer.py:340 catches it
RouteProcessed ==
    /\ pc = "processed"
    /\ \/ /\ where' = [where EXCEPT ![queue[pos].zip] = "_processed"]
          /\ log' = Append(log, "Moved processed zip")
          /\ NextZip
          /\ UNCHANGED faults
       \/ /\ faults < MaxFaults
          /\ faults' = faults + 1
          /\ exc' = "move to _processed failed"
          /\ pc' = "except"
          /\ UNCHANGED <<where, log, pos, frame>>
    /\ UNCHANGED <<dirs, tmpdirs, records, serial, queue, ingested, start, runs, directCalls, call, arg, ret, procs>>

\* mutant: the handler of the iteration also removes the directory of the archive
RouteFailed_RemovesDir ==
    /\ pc = "except"
    /\ dirs' = IF frame.target_dir \in DOMAIN dirs THEN DictDel(dirs, frame.target_dir) ELSE dirs
    /\ \/ /\ where' = [where EXCEPT ![queue[pos].zip] = "_failed"]
          /\ log' = log \o <<"Failed to process", exc, "Moved failed zip">>
          /\ NextZip
          /\ UNCHANGED faults
       \/ /\ faults < MaxFaults
          /\ faults' = faults + 1
          /\ log' = log \o <<"Failed to process", exc, "Failed to move failed zip">>
          /\ NextZip
          /\ UNCHANGED where
       \/ /\ faults < MaxFaults
          /\ faults' = faults + 1
          /\ log' = log \o <<"Failed to process", exc>>
          /\ pc' = "crashed"
          /\ UNCHANGED <<where, pos, frame, exc>>
    /\ UNCHANGED <<tmpdirs, records, serial, queue, ingested, start, runs, directCalls, call, arg, ret, procs>>

\* importer.py:340-350: the handler of the iteration.  failed_dir.mkdir is not
\* inside a try: when it raises, the exception leaves process_all_zips
RouteFailed ==
    /\ pc = "except"
    /\ \/ /\ where' = [where EXCEPT ![queue[pos].zip] = "_failed"]
          /\ log' = log \o <<"Failed to process", exc, "Moved failed zip">>
          /\ NextZip
          /\ UNCHANGED faults
       \/ \* shutil.move raises: logged, the loop goes on
          /\ faults < MaxFaults
          /\ faults' = faults + 1
          /\ log' = log \o <<"Failed to process", exc, "Failed to move failed zip">>
          /\ NextZip
          /\ UNCHANGED where
       \/ \* failed_dir.mkdir raises
          /\ faults < MaxFaults
          /\ faults' = faults + 1
          /\ log' = log \o <<"Failed to process", exc>>
          /\ pc' = "crashed"
          /\ UNCHANGED <<where, pos, frame, exc>>
    /\ UNCHANGED <<dirs, tmpdirs, records, serial, queue, ingested, start, runs, directCalls, call, arg, ret, procs>>

(***************************************************************************)
(* insert_model called by another caller, before or after a completed run  *)
(* of the importer                                                         *)
(***************************************************************************)
DirectData ==
    { [model_name |-> n, format |-> <<"O","B","J">>, polygon_count |-> <<>>, preview_file |-> p] :
        n \in { <<"c","u","b","e">>, <<>> },
        p \in { <<"p",".","j","p","g">>, NoneValue } }

InsertModelCall ==
    /\ pc = "idle"
    /\ directCalls < MaxDirectCalls
    /\ directCalls' = directCalls + 1
    /\ \E model_data \in DirectData :
          LET r == insert_model(model_data, records, serial)
          IN /\ records' = r.rows
             /\ serial' = r.serial
             /\ call' = [made |-> TRUE, model_data |-> model_data, connected |-> TRUE,
                         before |-> records, serial |-> serial, ok |-> r.ok, id |-> r.id]
    /\ UNCHANGED <<where, dirs, tmpdirs, pc, queue, pos, frame, exc, log, ingested,
                   start, runs, faults, arg, ret, procs>>

Next ==
    \/ StartRun
    \/ EndRun
    \/ Extract
    \/ Resolve
    \/ Mkdir
    \/ MoveOne
    \/ Build
    \/ Insert
    \/ RouteProcessed
    \/ RouteFailed
    \/ InsertModelCall

Spec == Init /\ [][Next]_vars

(***************************************************************************)
(* Properties                                                              *)
(***************************************************************************)
LogHas(line) == line \in Range(log)

\* the archive of the iteration that ended last (the loop has moved on, or stopped)
LastZip == IF pc = "crashed" THEN queue[pos] ELSE queue[pos - 1]

\* an iteration has just ended: the loop is about to take its next zip or to end
IterationEnded == pc = "loop" /\ pos > 1

\* from the creation of the output directory until insert_model's outcome is handled
PersistenceInFlight == pc \in {"move", "build", "insert"}

IterationOver == IterationEnded \/ pc = "crashed"

\* the iteration failed before persistence: process_one_zip raised
FailedBeforePersistence == LogHas("Failed to process") /\ ~LogHas("Inserted model id")

C4_IngestedArchiveIsProcessed ==
    (IterationOver /\ LogHas("Inserted model id")) =>
        /\ \E r \in records :
              /\ records = start.records \cup {r}
              /\ r \notin start.records
              /\ DOMAIN dirs = DOMAIN start.dirs \cup {r.model_name}
              /\ r.model_name \notin DOMAIN start.dirs
        /\ where[LastZip.zip] = "_processed"
        /\ LastZip.dir # "_processed"

\* C5 as claimed: an archive that is in _processed is not discovered by a
\* later run, and nothing is inserted for it again.
C5_ProcessedNeverRediscovered ==
    /\ \A i \in DOMAIN queue : queue[i].dir # "_processed"
    /\ \A e \in ingested : e.dir # "_processed"

\* C6 as claimed: no exception leaves the batch loop; a run ends only after
\* every discovered archive has been handled.
C6_LoopNeverAborts ==
    /\ pc # "crashed"
    /\ (pc = "idle" /\ runs > 0) => pos = Len(queue) + 1

\* inside the with block of process_one_zip
InZip == pc \in {"resolve", "mkdir", "move", "build"}

\* C7: while process_one_zip runs there is one workspace, its own, holding only
\* files of the current archive; once it has returned or raised there is none.
C7_WorkspaceScoped ==
    IF InZip
    THEN /\ DOMAIN tmpdirs = {frame.tmpdir}
         /\ tmpdirs[frame.tmpdir] \subseteq DOMAIN Files(queue[pos].zip)
    ELSE DOMAIN tmpdirs = {}

\* C7 witness: the second archive of a run raised with its files still in the workspace
C7_Witness ==
    /\ pc = "except"
    /\ exc = "No geometry file found"
    /\ pos = 2
    /\ DOMAIN tmpdirs = {}

\* C8: no two rows of Model have the same model_name.
C8_ModelNameUnique ==
    \A r1, r2 \in records : r1.model_name = r2.model_name => r1 = r2

\* C8 witness: with two rows stored, an insert of a name already there was refused
C8_Witness ==
    /\ pc = "loop"
    /\ LogHas("Database insert failed")
    /\ faults = 0
    /\ Cardinality(records) = 2

\* C9: the directory ensure_unique_dir chose does not exist; it is the desired
\* name if that is free, and else name_k for the smallest k >= 1 that is free.
C9_UniqueDirIsFirstFree ==
    pc = "mkdir" =>
        LET n == frame.model_name_safe
            t == frame.target_dir
        IN /\ t \notin DOMAIN dirs
           /\ n \notin DOMAIN dirs => t = n
           /\ n \in DOMAIN dirs =>
                 \E k \in 1..Cardinality(DOMAIN dirs) :
                    /\ t = WithSuffix(n, k)
                    /\ \A j \in 1..(k - 1) : WithSuffix(n, j) \in DOMAIN dirs

\* C9 witness: cube, cube_1 and cube_2 exist and cube_3 is chosen
C9_Witness ==
    /\ pc = "mkdir"
    /\ { <<"c","u","b","e">>, <<"c","u","b","e","_","1">>, <<"c","u","b","e","_","2">> } \subseteq DOMAIN dirs
    /\ frame.target_dir = <<"c","u","b","e","_","3">>

\* C10: right after the importer's insert_model committed, the row is there and
\* its preview_file is a file of the directory named by its model_name.
C10_PreviewExistsAtCommit ==
    pc = "processed" =>
        \E r \in records :
           /\ r.model_name = frame.target_dir
           /\ r.preview_file = frame.model_data.preview_file
           /\ r.model_name \in DOMAIN dirs
           /\ r.preview_file \in dirs[r.model_name]

\* C10 witness: the committed preview is a file renamed on a collision
C10_Witness ==
    /\ pc = "processed"
    /\ frame.model_data.preview_file = <<"c","u","b","e","_","1",".","j","p","g">>

\* process_one_zip has returned (target_dir, model_data): insert_model is about to be called
Returned == pc = "insert"

\* C11 as claimed: the preview_file of the record built for a relocated archive
\* is the name under which the very file resolved as the preview was stored.
C11_PreviewFileIsResolvedFile ==
    Returned => frame.model_data.preview_file = frame.moved[frame.preview_path]

\* C12 as claimed: building the record never fails because of the
\* NumberOfPolygons value: where the record is built the polygon_count
\* expression evaluates (to an integer or to None), and no iteration fails
\* with the ValueError of int()/float().
C12_PolygonCountNeverRaises ==
    /\ pc = "build" => PolygonCount(frame.num_polys).ok
    /\ exc # "ValueError"

\* C13 as claimed: the polygon_count of every record handed to insert_model
\* is None or a non-negative integer.
C13_PolygonCountNonNegative ==
    Returned =>
        \/ frame.model_data.polygon_count = <<>>
        \/ frame.model_data.polygon_count[1] >= 0

\* the row insert_model stores for model_data under identifier id
RowOf(model_data, id) ==
    [model_id |-> id, model_name |-> model_data.model_name, format |-> model_data.format,
     polygon_count |-> model_data.polygon_count, preview_file |-> model_data.preview_file]

\* C14: a call of insert_model with model_name or preview_file missing or empty
\* fails without touching the store (not even the serial); a call with a name
\* already stored fails; a call that fails leaves the rows as they were (so
\* does one that could not connect); every other call adds exactly the row of
\* its argument under an identifier no stored row has, and returns it.
C14_InsertAllOrNothing ==
    call.made =>
        LET d == call.model_data
        IN IF ~Truthy(d.model_name) \/ ~Truthy(d.preview_file)
           THEN ~call.ok /\ records = call.before /\ serial = call.serial
           ELSE IF d.model_name \in ModelNames(call.before) \/ ~call.connected
           THEN ~call.ok /\ records = call.before
           ELSE /\ call.ok
                /\ call.id \notin { r.model_id : r \in call.before }
                /\ RowOf(d, call.id) \notin call.before
                /\ records = call.before \cup {RowOf(d, call.id)}

\* C14 witness: a direct call without preview_file was refused while a row was stored
C14_Witness ==
    /\ call.made
    /\ ~call.ok
    /\ call.model_data.preview_file = NoneValue
    /\ Truthy(call.model_data.model_name)
    /\ call.before # {}

(***************************************************************************)
(* slugify called on its own (importer.py:90-105): every name over a small *)
(* alphabet of kept, replaced, dropped and separator characters, and names *)
(* around the length limit                                                 *)
(***************************************************************************)
\* the importer is not running
ImporterIdle ==
    /\ where = <<>>
    /\ dirs = <<>>
    /\ tmpdirs = <<>>
    /\ records = {}
    /\ serial = 1
    /\ pc = "idle"
    /\ queue = <<>>
    /\ pos = 1
    /\ frame = NoFrame
    /\ exc = ""
    /\ log = <<>>
    /\ ingested = {}
    /\ start = [records |-> {}, dirs |-> <<>>, where |-> <<>>]
    /\ runs = 0
    /\ faults = 0
    /\ directCalls = 0
    /\ call = NoCall
    /\ procs = <<>>

importerVars == <<where, dirs, tmpdirs, records, serial, pc, queue, pos, frame, exc, log,
                  ingested, start, runs, faults, directCalls, call, procs>>

NameAlphabet == {"a", "B", "7", " ", ".", "!", "_", "-"}

\* a name of n letters
LongName(n) == [i \in 1..n |-> "a"]

Names ==
    UNION { [1..n -> NameAlphabet] : n \in 0..MaxNameLen }
    \cup { LongName(MaxSlugLen - 1), LongName(MaxSlugLen), LongName(MaxSlugLen + 1),
           LongName(MaxSlugLen + 1) \o <<".","o","b","j">> }

SlugInit ==
    /\ ImporterIdle
    /\ arg \in Names
    /\ ret = NoResult

CallSlugify ==
    /\ ~ret.done
    /\ ret' = [done |-> TRUE, val |-> slugify(arg)]
    /\ UNCHANGED <<arg, importerVars>>

SlugNext == CallSlugify

SlugSpec == SlugInit /\ [][SlugNext]_vars

\* a character slugify keeps: A-Z, a-z, 0-9, underscore, hyphen
IsSlugChar(c) == IsAlnum(c) \/ c = "_" \/ c = "-"

\* a non-empty string of at most 150 kept characters
IsSlug(s) ==
    /\ s # NoneValue
    /\ s # <<>>
    /\ Len(s) <= 150
    /\ \A i \in DOMAIN s : IsSlugChar(s[i])

\* C15 as claimed: for every string, the empty one included, slugify returns a
\* non-empty string of at most 150 characters of A-Z, a-z, 0-9, _ and -; an
\* empty input, or one with no such character, yields "model".
C15_SlugifyTotal ==
    ret.done =>
        /\ IsSlug(ret.val)
        /\ (\A i \in DOMAIN arg : ~IsSlugChar(arg[i])) => ret.val = FallbackSlug

\* C15 amended: for every non-empty string slugify returns such a string, and
\* "model" when the input has no kept character and no space inside it (a
\* space inside the trimmed input becomes an underscore); for the empty string
\* it returns None.
C15_SlugifyNonEmptyInput ==
    ret.done =>
        IF arg = <<>>
        THEN ret.val = NoneValue
        ELSE /\ IsSlug(ret.val)
             /\ (\A i \in DOMAIN Strip(arg) : ~IsSlugChar(Strip(arg)[i]) /\ Strip(arg)[i] # " ")
                    => ret.val = FallbackSlug

\* C15 witness: a name of 151 letters with an extension was cut to 150
C15_Witness ==
    /\ ret.done
    /\ Len(arg) > MaxSlugLen
    /\ Len(ret.val) = MaxSlugLen

(***************************************************************************)
(* parse_metadata_from_text called on its own (importer.py:49-65): every   *)
(* text over the characters the parser distinguishes, and the metadata     *)
(* texts of the Catalogue; then the parsed dict written back as            *)
(* "#<key>: <value>" lines and parsed again                                *)
(***************************************************************************)
TextAlphabet == {"#", ":", " ", "\n", "k"}

Texts ==
    UNION { [1..n -> TextAlphabet] : n \in 0..MaxTextLen }
    \cup { CubeInfo, NegCountInfo, BadCountInfo, FreeText }

\* one line "#<key>: <value>" per entry of the dict
RECURSIVE Serialize(_)
Serialize(m) ==
    IF DOMAIN m = {} THEN <<>>
    ELSE LET key == CHOOSE k \in DOMAIN m : TRUE
         IN MetaLine(key, m[key]) \o Serialize(DictDel(m, key))

ParseInit ==
    /\ ImporterIdle
    /\ arg \in Texts
    /\ ret = NoResult

ParseText ==
    /\ ~ret.done
    /\ ret' = [done |-> TRUE, reparsed |-> FALSE, val |-> parse_metadata_from_text(arg),
               again |-> <<>>]
    /\ UNCHANGED <<arg, importerVars>>

Reparse ==
    /\ ret.done
    /\ ~ret.reparsed
    /\ ret' = [ret EXCEPT !.reparsed = TRUE,
                          !.again = parse_metadata_from_text(Serialize(ret.val))]
    /\ UNCHANGED <<arg, importerVars>>

ParseNext ==
    \/ ParseText
    \/ Reparse

ParseSpec == ParseInit /\ [][ParseNext]_vars

\* the trimmed i-th line of the text
TrimmedLine(text, i) == Strip(SplitLines(text)[i])

\* the lines that, trimmed, start with "#" and contain a colon
PairLines(text) ==
    { i \in DOMAIN SplitLines(text) :
        /\ TrimmedLine(text, i) # <<>>
        /\ Head(TrimmedLine(text, i)) = "#"
        /\ ":" \in Range(TrimmedLine(text, i)) }

\* the place of the first colon of such a line
FirstColon(line) == CHOOSE c \in DOMAIN line : line[c] = ":" /\ \A j \in 1..(c - 1) : line[j] # ":"

\* what stands between the "#" and the first colon, trimmed
KeyOfLine(text, i) ==
    LET line == TrimmedLine(text, i)
    IN Strip([j \in 1..(FirstColon(line) - 2) |-> line[j + 1]])

\* what stands after the first colon, trimmed
ValueOfLine(text, i) ==
    LET line == TrimmedLine(text, i)
        c == FirstColon(line)
    IN Strip([j \in 1..(Len(line) - c) |-> line[c + j]])

\* C16: the parsed dict has exactly the keys of the "#key: value" lines of the
\* text, each with the value of the last line of that key, key and value
\* split on the first colon and trimmed; and writing the dict as one
\* "#<key>: <value>" line per entry and parsing that gives the same dict.
C16_ParseRoundTrip ==
    ret.done =>
        /\ DOMAIN ret.val = { KeyOfLine(arg, i) : i \in PairLines(arg) }
        /\ \A i \in PairLines(arg) :
              (\A j \in PairLines(arg) : j > i => KeyOfLine(arg, j) # KeyOfLine(arg, i))
                  => ret.val[KeyOfLine(arg, i)] = ValueOfLine(arg, i)
        /\ ret.reparsed => ret.again = ret.val

\* C16 witness: "#:k" then "#:": the later line overrode the earlier one, and
\* the dict survived the round trip
C16_Witness ==
    /\ ret.done
    /\ ret.reparsed
    /\ arg = <<"#", ":", "k", "\n", "#", ":">>
    /\ ret.val = [key \in {<<>>} |-> <<>>]
    /\ ret.again = ret.val

\* process_all_zips has returned
RunReturned == pc = "idle" /\ runs > 0

\* the lines that end the handling of one archive
RoutingLines == {"Moved processed zip", "Moved failed zip", "Failed to move failed zip",
                 "Removed partial folder", "Database insert failed"}

LoggedBefore(l1, l2) == \E i, j \in DOMAIN log : i < j /\ log[i] = l1 /\ log[j] = l2

\* the stages of the archive of the current iteration follow one another:
\* nothing is created, stored or moved before the files are resolved; the
\* directory exists and the files are resolved while files are relocated;
\* insert_model is called once every file is relocated; the archive is moved
\* to _processed after insert_model returned; a rollback follows a failed
\* insert_model of a relocated archive and nothing else
StageOrder ==
    /\ pc \in {"resolve", "mkdir"} =>
          dirs = start.dirs /\ records = start.records /\ where = start.where /\ ~call.made
    /\ pc \in {"move", "build"} =>
          /\ frame.geometry_path # 0
          /\ frame.preview_path # 0
          /\ frame.target_dir \in DOMAIN dirs
          /\ frame.target_dir \notin DOMAIN start.dirs
          /\ records = start.records /\ where = start.where /\ ~call.made
    /\ pc = "insert" =>
          /\ Len(frame.moved) = Len(Files(queue[pos].zip))
          /\ dirs[frame.target_dir] = Range(frame.moved)
          /\ records = start.records /\ where = start.where /\ ~call.made
    /\ pc = "processed" => call.made /\ call.ok /\ where = start.where
    /\ LogHas("Moved processed zip") => LoggedBefore("Inserted model id", "Moved processed zip")
    /\ (IterationEnded /\ LogHas("Database insert failed")) =>
          /\ LoggedBefore("Planned final directory", "Database insert failed")
          /\ call.made /\ ~call.ok
          /\ ~LogHas("Inserted model id")
          /\ ~LogHas("Failed to process")

\* the batch is over: process_all_zips returned, or an exception left it
BatchOver == RunReturned \/ pc = "crashed"

\* every iteration ends in exactly one of Archived(processed), Failed and
\* RolledBack, and when the batch is over every discovered archive had its iteration
EveryArchiveTerminal ==
    /\ IterationOver =>
          Cardinality({ l \in {"Moved processed zip", "Failed to process", "Database insert failed"} :
                          LogHas(l) }) = 1
    /\ BatchOver => \A i \in DOMAIN queue : i < pos \/ (pc = "crashed" /\ i = pos)

\* C18 as claimed: the stages of an archive follow one another in the order
\* Discovered, Extracted, MetadataParsed, FilesResolved, Relocated, Persisted,
\* Archived(processed), RolledBack is reached only from Relocated on a failed
\* insert_model, and every discovered archive ends the batch in exactly one of
\* Archived(processed), Failed and RolledBack.
C18_Lifecycle == StageOrder /\ EveryArchiveTerminal

\* the names given to the files moved before the i-th one
MovedBefore(i) == { frame.moved[j] : j \in 1..(i - 1) }

\* slugify(stem) + "_k" + lower-cased extension of a file name
NumberedName(name, k) == slugify(Stem(name)) \o <<"_">> \o IntToStr(k) \o Lower(Suffix(name))

\* C19: when every extracted file has been relocated, none is left in the
\* workspace, the output directory holds as many files as were extracted and
\* under pairwise distinct names, and each file is named slugify(stem) plus
\* its lower-cased extension, or, when that name was taken, with "_k" before
\* the extension for the smallest k >= 1 that was free.
C19_AllFilesRelocated ==
    pc = "build" =>
        LET files == Files(queue[pos].zip)
        IN /\ tmpdirs[frame.tmpdir] = {}
           /\ Len(frame.moved) = Len(files)
           /\ dirs[frame.target_dir] = Range(frame.moved)
           /\ Cardinality(dirs[frame.target_dir]) = Len(files)
           /\ \A i \in DOMAIN files :
                 LET plain == slugify(Stem(files[i].name)) \o Lower(Suffix(files[i].name))
                 IN IF plain \notin MovedBefore(i)
                    THEN frame.moved[i] = plain
                    ELSE \E k \in 1..Len(files) :
                            /\ frame.moved[i] = NumberedName(files[i].name, k)
                            /\ frame.moved[i] \notin MovedBefore(i)
                            /\ \A j \in 1..(k - 1) :
                                  NumberedName(files[i].name, j) \in MovedBefore(i)

\* C19 witness: the six files of an archive with two cube.jpg are relocated,
\* the second cube.jpg as cube_1.jpg, and a file of a subfolder under its slug
C19_Witness ==
    /\ pc = "build"
    /\ Len(frame.moved) = 6
    /\ frame.moved[2] = cube_jpg
    /\ frame.moved[6] = <<"c","u","b","e","_","1",".","j","p","g">>
    /\ frame.moved[3] = <<"Z","9",".","t","x","t">>

\* the names of the directories of the archives whose insert_model returned
CommittedDirs == { e.name : e \in ingested }

\* C20: no step of the importer deletes or changes the output directory or the
\* record of an archive whose insert_model has returned, in the rest of its
\* iteration (the move to _processed failing included) and in every later
\* iteration and run; a directory that a step deletes is the one allocated for
\* the archive being processed, which is not committed.
C20_CommittedIsNeverTouched ==
    [][ /\ \A e \in ingested :
              /\ e.name \in DOMAIN dirs'
              /\ dirs'[e.name] = dirs[e.name]
              /\ \E r \in records' : r.model_id = e.id /\ r.model_name = e.name
        /\ records \subseteq records'
        /\ \A d \in (DOMAIN dirs) \ (DOMAIN dirs') :
              /\ d = frame.target_dir
              /\ d \notin CommittedDirs
              /\ pc \in {"move", "build", "insert"} ]_vars

\* C20 witness: insert_model returned, the move to _processed failed and the
\* archive went to _failed; its directory and record are still there
C20_Witness ==
    /\ IterationEnded
    /\ LogHas("Inserted model id")
    /\ LogHas("Moved failed zip")
    /\ \E e \in ingested :
          /\ e.zip = LastZip.zip
          /\ e.name \in DOMAIN dirs
          /\ \E r \in records : r.model_id = e.id

\* the importer's inserts of the iteration that ended last
InsertedInIteration == { e \in ingested : e.zip = LastZip.zip /\ e.dir = LastZip.dir /\ e.run = runs }

\* C22: when the batch loop has placed the archive of the iteration in _failed,
\* no record produced from it in that iteration is in the store and no output
\* directory was added for it, also when the move to _processed failed after a
\* successful insert_model
C22_FailedHasNoRecordNorDirectory ==
    (IterationEnded /\ LogHas("Moved failed zip")) =>
        /\ InsertedInIteration = {}
        /\ records = start.records
        /\ DOMAIN dirs = DOMAIN start.dirs

(***************************************************************************)
(* Concurrent invocation.  NumWorkers invocations of process_all_zips run  *)
(* side by side as separate processes, each over an input directory of its *)
(* own that holds one archive, all with the same output root, workspace    *)
(* root and store.  Worker w runs importer.py:316-350 for its archive; its *)
(* steps interleave with the others' at the file-system and database       *)
(* calls, each of which is atomic (mkdir, rename, a committed INSERT).     *)
(* procs[w] is [pc, zip, at, frame, exc] and, as history, planned (the     *)
(* path ensure_unique_dir returned), created (its mkdir succeeded),        *)
(* removed (it removed the directory it created), rivals (the workers that *)
(* held the same planned path while neither had created it) and model_id   *)
(* (the id insert_model returned, 0 for none).  The workers are            *)
(* interchangeable, so RaceInit lists each choice of archives once, in     *)
(* the order of the workers; tempfile gives every worker a workspace name  *)
(* no other has, here the worker's own number.                             *)
(***************************************************************************)
\* invocations running side by side
NumWorkers == 2

Workers == 1..NumWorkers

\* the archives given to the workers: 1 and 8 resolve to the name cube (8 fails
\* after its files are moved), 2 is named after its zip
RaceArchives == {1, 2, 8}

NoProc(a) == [pc |-> "loop", zip |-> a, at |-> "input", frame |-> NoFrame, exc |-> "",
              planned |-> NoneValue, created |-> FALSE, removed |-> FALSE,
              rivals |-> {}, model_id |-> 0]

RaceInit ==
    /\ where = <<>>
    /\ dirs = <<>>
    /\ tmpdirs = <<>>
    /\ records = {}
    /\ serial = 1
    /\ pc = "idle"
    /\ queue = <<>>
    /\ pos = 1
    /\ frame = NoFrame
    /\ exc = ""
    /\ log = <<>>
    /\ ingested = {}
    /\ start = [records |-> {}, dirs |-> <<>>, where |-> <<>>]
    /\ runs = 0
    /\ faults = 0
    /\ directCalls = 0
    /\ call = NoCall
    /\ arg = <<>>
    /\ ret = NoResult
    /\ procs \in { f \in [Workers -> { NoProc(a) : a \in RaceArchives }] :
                      \A v, w \in Workers : v < w => f[v].zip <= f[w].zip }

\* what a worker's steps leave alone: the state of the single invocation
raceIdleVars == <<where, pc, queue, pos, frame, exc, log, ingested, start, runs,
                  directCalls, call, arg, ret>>

\* an exception leaves process_one_zip of worker w: the with block cleans up, and
\* the handler of process_all_zips (importer.py:340) catches it
W_RaiseFromZip(w, p, msg) ==
    /\ tmpdirs' = CleanupTmpdir(p.frame.tmpdir)
    /\ procs' = [procs EXCEPT ![w] = [p EXCEPT !.exc = msg, !.pc = "except"]]

\* importer.py:148-161
W_Extract(w) ==
    /\ procs[w].pc = "loop"
    /\ LET arch == Catalogue[procs[w].zip]
       IN IF arch.bad
          THEN /\ procs' = [procs EXCEPT ![w].exc = "Bad zip file", ![w].pc = "except"]
               /\ UNCHANGED tmpdirs
          ELSE IF arch.files = <<>>
          THEN /\ procs' = [procs EXCEPT ![w].exc = "No files found in zip", ![w].pc = "except"]
               /\ UNCHANGED tmpdirs
          ELSE /\ tmpdirs' = DictSet(tmpdirs, w, DOMAIN arch.files)
               /\ procs' = [procs EXCEPT ![w].frame = [NoFrame EXCEPT !.tmpdir = w],
                                         ![w].pc = "resolve"]
    /\ UNCHANGED <<dirs, records, serial, faults, raceIdleVars>>

\* the workers that hold the path target_dir from ensure_unique_dir and have not
\* reached their mkdir yet
Planning(target_dir) ==
    { v \in Workers : procs[v].pc = "mkdir" /\ procs[v].frame.target_dir = target_dir }

\* importer.py:163-239: ensure_unique_dir tests the output root as it is now
W_Resolve(w) ==
    /\ procs[w].pc = "resolve"
    /\ \E r \in {Resolution(Files(procs[w].zip), ZipStem(procs[w].zip), DOMAIN dirs)} :
          IF r.err # ""
          THEN W_RaiseFromZip(w, procs[w], r.err)
          ELSE /\ procs' =
                    [v \in Workers |->
                        IF v = w
                        THEN [procs[w] EXCEPT
                                !.frame = [@ EXCEPT !.geometry_path = r.geometry_path,
                                                    !.preview_path = r.preview_path,
                                                    !.download_format = r.download_format,
                                                    !.num_polys = r.num_polys,
                                                    !.model_name_safe = r.model_name_safe,
                                                    !.target_dir = r.target_dir],
                                !.planned = r.target_dir,
                                !.rivals = Planning(r.target_dir),
                                !.pc = "mkdir"]
                        ELSE IF v \in Planning(r.target_dir)
                        THEN [procs[v] EXCEPT !.rivals = @ \cup {w}]
                        ELSE procs[v]]
               /\ UNCHANGED tmpdirs
    /\ UNCHANGED <<dirs, records, serial, faults, raceIdleVars>>

\* mutant: target_dir.mkdir is inside the try of importer.py:245, so that its
\* FileExistsError reaches the handler that removes target_dir
W_MkdirExists_InsideTry(w) ==
    /\ dirs' = DictDel(dirs, procs[w].frame.target_dir)
    /\ W_RaiseFromZip(w, procs[w], "FileExistsError")

\* importer.py:242 when the directory exists: mkdir raises FileExistsError ahead
\* of the try of importer.py:245, no handler of process_one_zip runs
W_MkdirExists(w) ==
    /\ dirs' = dirs
    /\ W_RaiseFromZip(w, procs[w], "FileExistsError")

\* importer.py:242: target_dir.mkdir(parents=True, exist_ok=False)
W_Mkdir(w) ==
    /\ procs[w].pc = "mkdir"
    /\ \/ /\ procs[w].frame.target_dir \notin DOMAIN dirs
          /\ dirs' = DictSet(dirs, procs[w].frame.target_dir, {})
          /\ procs' = [procs EXCEPT ![w].frame.k = 1, ![w].created = TRUE, ![w].pc = "move"]
          /\ UNCHANGED <<tmpdirs, faults>>
       \/ /\ procs[w].frame.target_dir \in DOMAIN dirs
          /\ W_MkdirExists(w)
          /\ UNCHANGED faults
       \/ /\ faults < MaxFaults
          /\ faults' = faults + 1
          /\ W_RaiseFromZip(w, procs[w], "mkdir failed")
          /\ UNCHANGED dirs
    /\ UNCHANGED <<records, serial, raceIdleVars>>

\* importer.py:286-293
W_CleanupAndRaise(w, msg) ==
    /\ dirs' = IF procs[w].frame.target_dir \in DOMAIN dirs
               THEN DictDel(dirs, procs[w].frame.target_dir) ELSE dirs
    /\ W_RaiseFromZip(w, [procs[w] EXCEPT !.removed = TRUE], msg)

\* importer.py:248-263
W_MoveOne(w) ==
    /\ procs[w].pc = "move"
    /\ procs[w].frame.k <= Len(Files(procs[w].zip))
    /\ LET files == Files(procs[w].zip)
           f == procs[w].frame
           i == f.k
       IN \/ /\ f.target_dir \in DOMAIN dirs
             /\ LET dest == DestName(dirs[f.target_dir], files[i].name)
                IN /\ dirs' = [dirs EXCEPT ![f.target_dir] = @ \cup {dest}]
                   /\ tmpdirs' = [tmpdirs EXCEPT ![f.tmpdir] = @ \ {i}]
                   /\ procs' = [procs EXCEPT
                                  ![w].frame = [f EXCEPT
                                                  !.k = i + 1,
                                                  !.moved = Append(@, dest),
                                                  !.moved_preview_name =
                                                      TrackPreview(files, i, f.preview_path, dest, @)],
                                  ![w].pc = IF i = Len(files) THEN "build" ELSE "move"]
             /\ UNCHANGED faults
          \/ \* the directory is gone: shutil.move raises FileNotFoundError
             /\ f.target_dir \notin DOMAIN dirs
             /\ W_CleanupAndRaise(w, "move failed")
             /\ UNCHANGED faults
          \/ /\ faults < MaxFaults
             /\ faults' = faults + 1
             /\ W_CleanupAndRaise(w, "move failed")
    /\ UNCHANGED <<records, serial, raceIdleVars>>

\* importer.py:265-284
W_Build(w) ==
    /\ procs[w].pc = "build"
    /\ LET files == Files(procs[w].zip)
           f == procs[w].frame
           polys == PolygonCount(f.num_polys)
       IN IF ~Truthy(f.moved_preview_name)
          THEN W_CleanupAndRaise(w, "Failed to detect preview file after moving files.")
          ELSE IF ~polys.ok
          THEN W_CleanupAndRaise(w, "ValueError")
          ELSE /\ procs' = [procs EXCEPT
                              ![w].frame.model_data =
                                  [model_name |-> f.target_dir,
                                   format |-> FormatOf(f.download_format,
                                                       files[f.geometry_path].name),
                                   polygon_count |-> polys.val,
                                   preview_file |-> f.moved_preview_name],
                              ![w].pc = "insert"]
               /\ tmpdirs' = CleanupTmpdir(f.tmpdir)
               /\ UNCHANGED dirs
    /\ UNCHANGED <<records, serial, faults, raceIdleVars>>

\* importer.py:323-332: the handler of a failed insert_model; the worker's one
\* archive is done and process_all_zips returns
W_InsertFailed(w) ==
    /\ dirs' = IF procs[w].frame.target_dir \in DOMAIN dirs
               THEN DictDel(dirs, procs[w].frame.target_dir) ELSE dirs
    /\ procs' = [procs EXCEPT ![w].removed = TRUE, ![w].pc = "done"]

\* importer.py:320-332
W_Insert(w) ==
    /\ procs[w].pc = "insert"
    /\ \/ LET r == insert_model(procs[w].frame.model_data, records, serial)
          IN /\ records' = r.rows
             /\ serial' = r.serial
             /\ IF r.ok
                THEN /\ procs' = [procs EXCEPT ![w].model_id = r.id, ![w].pc = "processed"]
                     /\ UNCHANGED dirs
                ELSE W_InsertFailed(w)
             /\ UNCHANGED faults
       \/ /\ faults < MaxFaults
          /\ faults' = faults + 1
          /\ W_InsertFailed(w)
          /\ UNCHANGED <<records, serial>>
    /\ UNCHANGED <<tmpdirs, raceIdleVars>>

\* importer.py:334-339
W_RouteProcessed(w) ==
    /\ procs[w].pc = "processed"
    /\ \/ /\ procs' = [procs EXCEPT ![w].at = "_processed", ![w].pc = "done"]
          /\ UNCHANGED faults
       \/ /\ faults < MaxFaults
          /\ faults' = faults + 1
          /\ procs' = [procs EXCEPT ![w].exc = "move to _processed failed", ![w].pc = "except"]
    /\ UNCHANGED <<dirs, tmpdirs, records, serial, raceIdleVars>>

\* importer.py:340-350
W_RouteFailed(w) ==
    /\ procs[w].pc = "except"
    /\ \/ /\ procs' = [procs EXCEPT ![w].at = "_failed", ![w].pc = "done"]
          /\ UNCHANGED faults
       \/ /\ faults < MaxFaults
          /\ faults' = faults + 1
          /\ procs' = [procs EXCEPT ![w].pc = "done"]
       \/ /\ faults < MaxFaults
          /\ faults' = faults + 1
          /\ procs' = [procs EXCEPT ![w].pc = "crashed"]
    /\ UNCHANGED <<dirs, tmpdirs, records, serial, raceIdleVars>>

RaceNext ==
    \/ \E w \in Workers : W_Extract(w)
    \/ \E w \in Workers : W_Resolve(w)
    \/ \E w \in Workers : W_Mkdir(w)
    \/ \E w \in Workers : W_MoveOne(w)
    \/ \E w \in Workers : W_Build(w)
    \/ \E w \in Workers : W_Insert(w)
    \/ \E w \in Workers : W_RouteProcessed(w)
    \/ \E w \in Workers : W_RouteFailed(w)

RaceSpec == RaceInit /\ [][RaceNext]_vars

\* worker w has the directory it created: it made it and has not removed it
Has(w) == procs[w].created /\ ~procs[w].removed

\* w and v obtained the same path from ensure_unique_dir before either created it
Raced(w, v) == w # v /\ v \in procs[w].rivals

\* C21 as claimed: of two ingestions that obtained the same candidate path before
\* either created it, at most one ever creates the directory, the other fails at
\* its mkdir
C21_OnlyOneRacerCreates ==
    \A w, v \in Workers : Raced(w, v) => ~(procs[w].created /\ procs[v].created)

\* C21, amended: the race is benign.  At any time at most one worker has a given
\* directory, so two archives never share one; the output root holds exactly
\* the directories the workers have, each with exactly the files its own worker
\* moved into it, so no step of another worker (its failing mkdir included)
\* deletes or alters it; a worker whose mkdir raised FileExistsError created
\* nothing and moved nothing; and of two racers both create the directory only
\* one after the other, the first having removed its own directory before
C21_RaceIsBenign ==
    /\ \A w, v \in Workers :
          (w # v /\ Has(w) /\ Has(v)) => procs[w].planned # procs[v].planned
    /\ DOMAIN dirs = { procs[w].planned : w \in { v \in Workers : Has(v) } }
    /\ \A w \in Workers :
          Has(w) => dirs[procs[w].planned] = Range(procs[w].frame.moved)
    /\ \A w \in Workers :
          procs[w].exc = "FileExistsError" =>
              (~procs[w].created /\ procs[w].frame.moved = <<>> /\ procs[w].model_id = 0)
    /\ \A w, v \in Workers :
          (Raced(w, v) /\ procs[w].created /\ procs[v].created) =>
              (procs[w].removed \/ procs[v].removed)

\* two workers raced for one path; the winner relocated its files and committed
\* its record, the loser failed at mkdir and its archive went to _failed
C21_Witness ==
    \E w, v \in Workers :
        /\ Raced(w, v)
        /\ Has(w)
        /\ procs[w].model_id # 0
        /\ procs[w].pc = "done"
        /\ dirs[procs[w].planned] # {}
        /\ procs[v].exc = "FileExistsError"
        /\ procs[v].pc = "done"
        /\ procs[v].at = "_failed"

====
